---- MODULE Spec2Model ----
(***************************************************************************)
(* Model of paper/code/ewstools-tuto-1.py: the ewstools micro-benchmark.   *)
(* The script is one sequential program: it seeds the global random        *)
(* generator, builds and preprocesses an ewstools.TimeSeries, runs eight   *)
(* copies of the same timing loop (one per estimator) and writes two CSV   *)
(* files.  Every statement of the script is one action; the eight loop     *)
(* copies are one parameterised group of actions driven by the tables      *)
(* Callee and Slot, which hold what differs between the copies.            *)
(***************************************************************************)
EXTENDS Integers, Sequences, FiniteSets, TLC

(* ---------------- bounds of the model ---------------- *)
\* n = 100 in the script (line 19); the model runs the loops n times
n == 2
\* timestamps returned by time.time() range over 0..MaxClock
MaxClock == 2
\* states of the global random generator before it is seeded: 0..MaxRng
MaxRng == 2

(* ---------------- constants of the script ---------------- *)
Seed == 0
tmax == 1000
transition == 860
NumOps == 8

\* what the wall clock does while a timed call runs: it stands still (the
\* call is shorter than the clock's resolution), advances, or is set back (a
\* clock adjustment: time.time() is not monotonic)
ClockSteps == {-1, 0, 1}

\* a loop copy pasted without renaming the call: compute_skew is timed twice
Callee_pasted(k) ==
    <<"compute_var", "compute_cv", "compute_skew", "compute_skew",
      "compute_auto", "compute_smax", "compute_ktau", "block_bootstrap">>[k]

\* the estimator called by the k-th copy of the timing loop
Callee(k) ==
    <<"compute_var", "compute_cv", "compute_skew", "compute_kurt",
      "compute_auto", "compute_smax", "compute_ktau", "block_bootstrap">>[k]

\* a loop copy pasted without renumbering: two loops assign slot 5
Slot_dup(k) == <<0, 1, 2, 3, 4, 5, 5, 7>>[k]

\* the index of t_minruntime the k-th copy of the timing loop assigns
Slot(k) == <<0, 1, 2, 3, 4, 5, 6, 7>>[k]

\* the seeding left out: the generator keeps the state it started with
np_random_seed_ignored(r, s) == r

\* np.random.seed(s): the generator's state becomes a function of s alone
np_random_seed(r, s) == s

\* drawing random numbers moves the generator to its next state
Draw(r) == (r + 1) % (MaxRng + 1)

\* simulate_ricker(tmax, F): a series of tmax values whose noise is drawn
\* from the global generator, so it is determined by the generator's state
simulate_ricker(r, len) == [len |-> len, noise |-> r]

NoSeries == [len |-> 0, noise |-> -1]

\* ewstools.TimeSeries(data, transition)
TimeSeries(data, tr) ==
    [data |-> data, transition |-> tr, state |-> data, smoothing |-> NoSeries,
     residuals |-> NoSeries, spectrum |-> FALSE, ews |-> {}, ktau |-> FALSE]

\* ts.detrend(method='Lowess', span=0.2): smoothing and residuals get one
\* value per element of the state column
detrend(t) ==
    [t EXCEPT !.smoothing = [len |-> t.state.len, noise |-> 0],
              !.residuals = [len |-> t.state.len, noise |-> t.state.noise]]

\* ts.compute_spectrum(rolling_window=0.5, ham_length=40)
compute_spectrum(t) == [t EXCEPT !.spectrum = TRUE]

\* an estimator that drops the rolling window's leading rows in place
CallEffect_inplace(t, name) ==
    IF name = "compute_var"
    THEN [t EXCEPT !.ews = @ \cup {"variance"},
                   !.residuals = [len |-> t.residuals.len \div 2,
                                  noise |-> t.residuals.noise]]
    ELSE t

\* the effect of one timed call on the analysis object: the estimators add
\* their column to ts.ews (compute_ktau fills ts.ktau); block_bootstrap gets
\* ts.state.residuals as an argument and returns a new frame
CallEffect(t, name) ==
    CASE name = "compute_var"   -> [t EXCEPT !.ews = @ \cup {"variance"}]
      [] name = "compute_cv"    -> [t EXCEPT !.ews = @ \cup {"cv"}]
      [] name = "compute_skew"  -> [t EXCEPT !.ews = @ \cup {"skew"}]
      [] name = "compute_kurt"  -> [t EXCEPT !.ews = @ \cup {"kurtosis"}]
      [] name = "compute_auto"  -> [t EXCEPT !.ews = @ \cup {"ac1"}]
      [] name = "compute_smax"  -> [t EXCEPT !.ews = @ \cup {"smax"}]
      [] name = "compute_ktau"  -> [t EXCEPT !.ktau = TRUE]
      [] OTHER                  -> t

\* only the stationary block bootstrap consumes random numbers
CallDraws(r, name) == IF name = "block_bootstrap" THEN Draw(r) ELSE r

\* time.time(): the wall clock as it stands
time_time(c) == c

\* the least element of a non-empty sequence
SeqMin(q) == CHOOSE m \in {q[j] : j \in 1..Len(q)} : \A j \in 1..Len(q) : m <= q[j]

\* time.time() - t0
Elapsed(now, start) == now - start

\* range(n - 1): the last entry of the buffer is never overwritten
LoopNext_short(j) == IF j < n - 1 THEN "t0" ELSE "min"

\* range(n + 1): one trial too many
LoopNext_off(j) == IF j <= n THEN "t0" ELSE "min"

\* for i in range(n): the statement after the body's last statement
LoopNext(j) == IF j < n THEN "t0" ELSE "min"

\* the series detrended again before each estimator is timed
AfterLoop_redetrend(k) == IF k < NumOps THEN "detrend" ELSE "save_resid"

\* after the k-th loop copy the script goes on with the next copy, or with
\* the two np.savetxt calls
AfterLoop(k) == IF k < NumOps THEN "t0" ELSE "save_resid"

\* min(t_elapsed): the minimum over the whole buffer
ArrMin(a) == CHOOSE m \in {a[j] : j \in DOMAIN a} : \A j \in DOMAIN a : m <= a[j]

zeros(len) == [j \in 0..(len - 1) |-> 0]

\* np.savetxt(fname, X): one row per element of X
savetxt(len, noise) == [kind |-> "complete", rows |-> len, noise |-> noise]
NoFile == [kind |-> "absent", rows |-> 0, noise |-> 0]
\* a write that fails leaves no file (open failed) or a truncated one
FailedWrites == {NoFile, [kind |-> "partial", rows |-> 0, noise |-> 0]}

VARIABLES
    pc,            \* the statement the script executes next
    rng,           \* state of numpy's global random generator
    clock,         \* what time.time() returns now
    series,        \* simulate_ricker's result
    ts,            \* the ewstools.TimeSeries
    blk,           \* which copy of the timing loop is running, 1..8
    i,             \* the loop variable
    t0,            \* the start timestamp
    t_elapsed,     \* the sample buffer shared by the eight loops
    t_minruntime,  \* the reported minima
    resid_file,    \* ../data/ewstools_ricker.csv as written by this run
    perfo_file,    \* ../data/ewstools_perfo.csv as written by this run
    perfo_rows,    \* the rows of the timing file
    \* history variables: they record what happened and steer nothing
    prep,          \* the preprocessing calls made so far, in order
    prepTimed,     \* a preprocessing call was made inside a timed region
    callLog,       \* the timed calls made so far, in order
    regionCalls,   \* calls made since the last start timestamp
    stamps,        \* number of start and of end timestamps read
    samples,       \* the elapsed samples of the current loop copy
    slotWrites,    \* how often each slot of t_minruntime was assigned
    slotWriter,    \* the estimator whose loop assigned the slot
    slotMin,       \* the least sample that loop had measured
    slotCount,     \* how many samples that loop had measured
    raisedAt,      \* where a call raised: <<copy, trial>>, <<>> if none
    writeFailed    \* which np.savetxt failed: 0 if none

vars == <<pc, rng, clock, series, ts, blk, i, t0, t_elapsed, t_minruntime,
          resid_file, perfo_file, perfo_rows, prep, prepTimed, callLog,
          regionCalls, stamps, samples, slotWrites, slotWriter, slotMin, slotCount,
          raisedAt, writeFailed>>

program == <<rng, series, ts, blk, i, t0, t_elapsed, t_minruntime>>
files   == <<resid_file, perfo_file, perfo_rows>>
history == <<prep, prepTimed, callLog, regionCalls, stamps, samples,
             slotWrites, slotWriter, slotMin, slotCount, raisedAt, writeFailed>>

Init ==
    /\ pc = "seed"
    /\ rng \in 0..MaxRng
    /\ clock \in 0..MaxClock
    /\ series = NoSeries
    /\ ts = TimeSeries(NoSeries, 0)
    /\ blk = 0
    /\ i = 0
    /\ t0 = 0
    /\ t_elapsed = <<>>
    /\ t_minruntime = <<>>
    /\ resid_file = NoFile
    /\ perfo_file = NoFile
    /\ perfo_rows = <<>>
    /\ prep = <<>>
    /\ prepTimed = FALSE
    /\ callLog = <<>>
    /\ regionCalls = 0
    /\ stamps = <<0, 0>>
    /\ samples = <<>>
    /\ slotWrites = [k \in 0..(NumOps - 1) |-> 0]
    /\ slotWriter = [k \in 0..(NumOps - 1) |-> "none"]
    /\ slotMin = [k \in 0..(NumOps - 1) |-> 0]
    /\ slotCount = [k \in 0..(NumOps - 1) |-> 0]
    /\ raisedAt = <<>>
    /\ writeFailed = 0

\* a start timestamp has been read and its end timestamp has not
InTimedRegion == stamps[1] > stamps[2]

\* the exception caught and dropped: the script goes on to its output
Abort_caught == pc' = "save_resid"

\* an uncaught exception ends the script
Abort == pc' = "aborted"

\* np.random.seed(0)
SeedRng ==
    /\ pc = "seed"
    /\ rng' = np_random_seed(rng, Seed)
    /\ pc' = "simulate"
    /\ UNCHANGED <<clock, series, ts, blk, i, t0, t_elapsed, t_minruntime,
                   files, history>>

\* series = simulate_ricker(tmax=1000, F=[0,2.7])
SimulateRicker ==
    /\ pc = "simulate"
    /\ series' = simulate_ricker(rng, tmax)
    /\ rng' = Draw(rng)
    /\ pc' = "construct"
    /\ UNCHANGED <<clock, ts, blk, i, t0, t_elapsed, t_minruntime, files, history>>

\* ts = ewstools.TimeSeries(data=series, transition=860)
Construct ==
    /\ pc = "construct"
    /\ ts' = TimeSeries(series, transition)
    /\ pc' = "detrend"
    /\ UNCHANGED <<clock, rng, series, blk, i, t0, t_elapsed, t_minruntime,
                   files, history>>

\* ts.detrend(method='Lowess', span=0.2) returns
Detrend ==
    /\ pc = "detrend"
    /\ ts' = detrend(ts)
    /\ prep' = Append(prep, "detrend")
    /\ prepTimed' = (prepTimed \/ InTimedRegion)
    /\ pc' = "plot"
    /\ UNCHANGED <<clock, rng, series, blk, i, t0, t_elapsed, t_minruntime, files,
                   callLog, regionCalls, stamps, samples, slotWrites,
                   slotWriter, slotMin, slotCount, raisedAt, writeFailed>>

\* ts.detrend(method='Lowess', span=0.2) raises
DetrendRaises ==
    /\ pc = "detrend"
    /\ raisedAt' = <<0, 0>>
    /\ Abort
    /\ UNCHANGED <<clock, program, files, prep, prepTimed, callLog, regionCalls,
                   stamps, samples, slotWrites, slotWriter, slotMin, slotCount,
                   writeFailed>>

\* ts.state[['state','smoothing']].plot()
Plot ==
    /\ pc = "plot"
    /\ pc' = "spectrum"
    /\ UNCHANGED <<clock, program, files, history>>

\* ts.compute_spectrum(rolling_window=0.5, ham_length=40) returns; return ts
ComputeSpectrum ==
    /\ pc = "spectrum"
    /\ ts' = compute_spectrum(ts)
    /\ prep' = Append(prep, "compute_spectrum")
    /\ prepTimed' = (prepTimed \/ InTimedRegion)
    /\ pc' = "alloc"
    /\ UNCHANGED <<clock, rng, series, blk, i, t0, t_elapsed, t_minruntime, files,
                   callLog, regionCalls, stamps, samples, slotWrites,
                   slotWriter, slotMin, slotCount, raisedAt, writeFailed>>

\* ts.compute_spectrum(rolling_window=0.5, ham_length=40) raises
ComputeSpectrumRaises ==
    /\ pc = "spectrum"
    /\ raisedAt' = <<0, 0>>
    /\ Abort
    /\ UNCHANGED <<clock, program, files, prep, prepTimed, callLog, regionCalls,
                   stamps, samples, slotWrites, slotWriter, slotMin, slotCount,
                   writeFailed>>

\* n = 100; t_elapsed = np.zeros(n); t_minruntime = np.zeros(8)
Alloc ==
    /\ pc = "alloc"
    /\ t_elapsed' = zeros(n)
    /\ t_minruntime' = zeros(NumOps)
    /\ blk' = 1
    /\ i' = 0
    /\ pc' = LoopNext(0)
    /\ UNCHANGED <<clock, rng, series, ts, t0, files, history>>

\* t0 = time.time()
ReadT0 ==
    /\ pc = "t0"
    /\ t0' = time_time(clock)
    /\ regionCalls' = 0
    /\ stamps' = <<stamps[1] + 1, stamps[2]>>
    /\ pc' = "call"
    /\ UNCHANGED <<clock, rng, series, ts, blk, i, t_elapsed, t_minruntime, files,
                   prep, prepTimed, callLog, samples, slotWrites, slotWriter,
                   slotMin, slotCount, raisedAt, writeFailed>>

\* the wall clock while a timed call runs
ClockMoves ==
    \E d \in ClockSteps :
        /\ clock + d \in 0..MaxClock
        /\ clock' = clock + d

\* ts.compute_var(rolling_window=rw) and its seven siblings: the call returns
TimedCall ==
    /\ pc = "call"
    /\ ClockMoves
    /\ callLog' = Append(callLog, Callee(blk))
    /\ regionCalls' = regionCalls + 1
    /\ ts' = CallEffect(ts, Callee(blk))
    /\ rng' = CallDraws(rng, Callee(blk))
    /\ pc' = "t1"
    /\ UNCHANGED <<series, blk, i, t0, t_elapsed, t_minruntime, files,
                   prep, prepTimed, stamps, samples, slotWrites, slotWriter,
                   slotMin, slotCount, raisedAt, writeFailed>>

\* ts.compute_var(rolling_window=rw) and its seven siblings: the call raises
TimedCallRaises ==
    /\ pc = "call"
    /\ ClockMoves
    /\ callLog' = Append(callLog, Callee(blk))
    /\ regionCalls' = regionCalls + 1
    /\ raisedAt' = <<blk, i>>
    /\ Abort
    /\ UNCHANGED <<program, files, prep, prepTimed, stamps, samples, slotWrites,
                   slotWriter, slotMin, slotCount, writeFailed>>

\* t_elapsed[i] = time.time() - t0, and the loop's next iteration or exit
StoreElapsed ==
    /\ pc = "t1"
    /\ t_elapsed' = [t_elapsed EXCEPT ![i] = Elapsed(time_time(clock), t0)]
    /\ samples' = IF i = 0 THEN <<clock - t0>> ELSE Append(samples, clock - t0)
    /\ stamps' = <<stamps[1], stamps[2] + 1>>
    /\ i' = i + 1
    /\ pc' = LoopNext(i + 1)
    /\ UNCHANGED <<clock, rng, series, ts, blk, t0, t_minruntime, files,
                   prep, prepTimed, callLog, regionCalls, slotWrites,
                   slotWriter, slotMin, slotCount, raisedAt, writeFailed>>

\* t_minruntime[k] = min(t_elapsed), then the next loop copy starts
RecordMin ==
    /\ pc = "min"
    /\ t_minruntime' = [t_minruntime EXCEPT ![Slot(blk)] = ArrMin(t_elapsed)]
    /\ slotWrites' = [slotWrites EXCEPT ![Slot(blk)] = @ + 1]
    /\ slotWriter' = [slotWriter EXCEPT ![Slot(blk)] = Callee(blk)]
    /\ slotMin' = [slotMin EXCEPT ![Slot(blk)] = SeqMin(samples)]
    /\ slotCount' = [slotCount EXCEPT ![Slot(blk)] = Len(samples)]
    /\ blk' = blk + 1
    /\ i' = 0
    /\ pc' = AfterLoop(blk)
    /\ UNCHANGED <<clock, rng, series, ts, t0, t_elapsed, files,
                   prep, prepTimed, callLog, regionCalls, stamps, samples,
                   raisedAt, writeFailed>>

\* np.savetxt('../data/ewstools_ricker.csv', ts.state[['residuals']].values)
SaveResiduals ==
    /\ pc = "save_resid"
    /\ resid_file' = savetxt(ts.residuals.len, ts.residuals.noise)
    /\ pc' = "save_perfo"
    /\ UNCHANGED <<clock, program, perfo_file, perfo_rows, history>>

\* the same call raising: nothing or a truncated file is left behind
SaveResidualsFails ==
    /\ pc = "save_resid"
    /\ resid_file' \in FailedWrites
    /\ writeFailed' = 1
    /\ Abort
    /\ UNCHANGED <<clock, program, perfo_file, perfo_rows,
                   prep, prepTimed, callLog, regionCalls, stamps, samples,
                   slotWrites, slotWriter, slotMin, slotCount, raisedAt>>

\* np.savetxt('../data/ewstools_perfo.csv', t_minruntime, delimiter=',')
SavePerfo ==
    /\ pc = "save_perfo"
    /\ perfo_file' = savetxt(Cardinality(DOMAIN t_minruntime), 0)
    /\ perfo_rows' = t_minruntime
    /\ pc' = "done"
    /\ UNCHANGED <<clock, program, resid_file, history>>

\* the same call raising
SavePerfoFails ==
    /\ pc = "save_perfo"
    /\ perfo_file' \in FailedWrites
    /\ perfo_rows' = <<>>
    /\ writeFailed' = 2
    /\ Abort
    /\ UNCHANGED <<clock, program, resid_file,
                   prep, prepTimed, callLog, regionCalls, stamps, samples,
                   slotWrites, slotWriter, slotMin, slotCount, raisedAt>>

\* the steps of a run in which every library call returns
Returns ==
    \/ SeedRng
    \/ SimulateRicker
    \/ Construct
    \/ Detrend
    \/ Plot
    \/ ComputeSpectrum
    \/ Alloc
    \/ ReadT0
    \/ TimedCall
    \/ StoreElapsed
    \/ RecordMin
    \/ SaveResiduals
    \/ SavePerfo

Next ==
    \/ SeedRng
    \/ SimulateRicker
    \/ Construct
    \/ Detrend
    \/ DetrendRaises
    \/ Plot
    \/ ComputeSpectrum
    \/ ComputeSpectrumRaises
    \/ Alloc
    \/ ReadT0
    \/ TimedCall
    \/ TimedCallRaises
    \/ StoreElapsed
    \/ RecordMin
    \/ SaveResiduals
    \/ SaveResidualsFails
    \/ SavePerfo
    \/ SavePerfoFails

Spec == Init /\ [][Next]_vars

\* a run in which every library call returns; the interpreter runs the
\* script's next statement as long as there is one
ReturnSpec == Init /\ [][Returns]_vars /\ WF_vars(Returns)

(***************************************************************************)
(* The properties of the benchmark.                                        *)
(***************************************************************************)

\* the order of the rows the timing file is documented to have
DeclaredOrder ==
    <<"compute_var", "compute_cv", "compute_skew", "compute_kurt",
      "compute_auto", "compute_smax", "compute_ktau", "block_bootstrap">>

Slots == 0..(NumOps - 1)
Complete(f) == f.kind = "complete"
Absent(f) == f.kind = "absent"
Prepared == <<"detrend", "compute_spectrum">>

\* C1: once slot k of t_minruntime is assigned, it holds the minimum of the
\* n samples measured for operation k's own calls and of nothing else: no
\* initial zero and no sample of an earlier operation is left in the shared
\* buffer when the minimum is taken.
C1_MinOfOwnSamples ==
    \A k \in Slots :
        slotWrites[k] > 0 =>
            /\ slotWriter[k] = DeclaredOrder[k + 1]
            /\ slotCount[k] = n
            /\ t_minruntime[k] = slotMin[k]

\* operation 1 reports 1 although the buffer held zeros first and then the
\* samples of operation 0, whose minimum was -1
C1_Witness ==
    /\ slotWrites[1] = 1
    /\ t_minruntime[0] = -1
    /\ t_minruntime[1] = 1

\* C2: every slot of t_minruntime is assigned at most once, by the loop of
\* the operation the declared order puts there, and a timing file that was
\* written has 8 rows, row k holding what operation k's loop recorded.
C2_RowsInDeclaredOrder ==
    /\ \A k \in Slots : slotWrites[k] <= 1
    /\ \A k \in Slots : slotWrites[k] = 1 => slotWriter[k] = DeclaredOrder[k + 1]
    /\ Complete(perfo_file) =>
          /\ perfo_file.rows = 8
          /\ DOMAIN perfo_rows = Slots
          /\ \A k \in Slots : slotWrites[k] = 1 /\ perfo_rows[k] = slotMin[k]

C2_Witness ==
    /\ pc = "done"
    /\ Complete(perfo_file)
    /\ perfo_rows[0] = 1
    /\ perfo_rows[6] = 0
    /\ perfo_rows[7] = -1

\* C3: a call that raises ends the run at that call: the script is aborted,
\* the raising call is the last call made, and neither output file exists.
C3_RaiseAborts ==
    raisedAt # <<>> =>
        /\ pc = "aborted"
        /\ Absent(resid_file)
        /\ Absent(perfo_file)
        /\ raisedAt[1] >= 1 => Len(callLog) = (raisedAt[1] - 1) * n + raisedAt[2] + 1

\* the second trial of the third operation raised: two minima are in memory,
\* nothing is on disk
C3_Witness ==
    /\ pc = "aborted"
    /\ raisedAt = <<3, 1>>
    /\ slotWrites[1] = 1
    /\ Absent(resid_file)

\* C4: detrend and compute_spectrum run once each, in that order, before the
\* first start timestamp is read, and never inside a timed region.
C4_PreprocessOnce ==
    /\ prep \in {<<>>, <<"detrend">>, Prepared}
    /\ (stamps[1] > 0 \/ callLog # <<>>) => prep = Prepared
    /\ ~prepTimed

C4_Witness ==
    /\ pc = "call"
    /\ blk = NumOps
    /\ prep = Prepared
    /\ ts.spectrum
    /\ ts.residuals.len = tmax

\* C5: every elapsed sample and every reported minimum is >= 0.
C5_TimingsNonNegative ==
    /\ \A j \in DOMAIN t_elapsed : t_elapsed[j] >= 0
    /\ \A k \in DOMAIN t_minruntime : t_minruntime[k] >= 0

\* C6: after a failed write no output file of the run exists.
C6_NoPartialOutput ==
    writeFailed # 0 => Absent(resid_file) /\ Absent(perfo_file)

\* C7: from detrend on the residual series has tmax elements and is the
\* detrended series, whatever timed calls have run, and a residual file that
\* was written has tmax rows.
C7_ResidualRows ==
    /\ prep # <<>> =>
          /\ ts.residuals.len = tmax
          /\ ts.residuals.noise = series.noise
    /\ Complete(resid_file) => resid_file.rows = tmax

C7_Witness ==
    /\ pc = "done"
    /\ Len(callLog) = NumOps * n
    /\ callLog[Len(callLog)] = "block_bootstrap"
    /\ Complete(resid_file)
    /\ resid_file.rows = tmax

\* C8: a run in which every library call returns ends with both files
\* written; when it reaches the output it has made exactly 8*n timed calls,
\* no loop has run more than n trials, and the residual file is written
\* before the timing file.
C8_Terminates ==
    /\ [](pc \in {"save_resid", "save_perfo", "done"} => Len(callLog) = NumOps * n)
    /\ [](i <= n)
    /\ [](~Absent(perfo_file) => Complete(resid_file))
    /\ [](pc = "done" => Complete(resid_file) /\ Complete(perfo_file))
    /\ <>(pc = "done")

C8_Witness ==
    /\ pc = "done"
    /\ raisedAt = <<>>
    /\ writeFailed = 0
    /\ stamps = <<NumOps * n, NumOps * n>>

\* C9: whatever state the random generator starts in, the generated series
\* and the residual file are the ones seed 0 gives, also after the timed
\* block_bootstrap calls have drawn random numbers.
C9_SeriesReproducible ==
    /\ series # NoSeries => series = [len |-> tmax, noise |-> 0]
    /\ Complete(resid_file) => resid_file.noise = 0

C9_Witness ==
    /\ pc = "done"
    /\ Complete(resid_file)
    /\ resid_file.noise = 0
    /\ rng # 1

\* C10: the timed calls are n calls of the first operation, then n of the
\* second, and so on; every call lies alone in its own timed region; and the
\* minima of all earlier operations are recorded before a call is made.
C10_ContiguousBlocks ==
    /\ \A p \in 1..Len(callLog) : callLog[p] = DeclaredOrder[((p - 1) \div n) + 1]
    /\ regionCalls <= 1
    /\ pc = "t1" => regionCalls = 1 /\ stamps[1] = stamps[2] + 1
    /\ stamps[2] <= stamps[1] /\ stamps[1] <= stamps[2] + 1
    /\ stamps[1] - Len(callLog) \in {0, 1}
    /\ pc \in {"call", "t1"} =>
          \A k \in Slots : slotWrites[k] = (IF k < (stamps[2] \div n) THEN 1 ELSE 0)
    /\ pc \in {"save_resid", "save_perfo", "done"} =>
          /\ Len(callLog) = NumOps * n
          /\ stamps = <<NumOps * n, NumOps * n>>

C10_Witness ==
    /\ pc = "call"
    /\ stamps = <<n + 1, n>>
    /\ Len(callLog) = n
    /\ slotWrites[0] = 1
    /\ slotWrites[1] = 0
====
